---- MODULE Spec2Model ----
(***************************************************************************)
(* Model of backend/metro_service.py (MetroService): the station catalog,  *)
(* the graph build_graph derives from it, and the read-only queries        *)
(* find_shortest_path, get_station_by_id, search_stations,                 *)
(* get_all_stations and get_all_lines.                                     *)
(*                                                                         *)
(* Scaling.  The 17 line codes of the source are cut down to the first two *)
(* of the dict's iteration order.  Coordinates are decimal strings naming  *)
(* a position on a grid of 0.0005 degree steps; distances are integers in  *)
(* metres (1/1000 km) and times are integers in 1/10000 minute, so that    *)
(* round(x, 2) on kilometres and round(x, 1) on minutes are exact integer  *)
(* roundings.  Names are sequences of one-character strings.               *)
(***************************************************************************)
EXTENDS Integers, Sequences, FiniteSets, TLC

VARIABLES stations, line_colors, G, phase, last

vars == <<stations, line_colors, G, phase, last>>

\* Largest number of station records in the whole catalog.
MaxStations == 4

\* Iteration order of the self.stations dict (its first two keys).
LineOrder == <<"M5", "M4">>

LineColors == [l \in {"M5", "M4"} |-> IF l = "M5" THEN "#E63946" ELSE "#1D3557"]

\* Station records as load_stations leaves them (without the "line" field,
\* which is the key of the list holding the record).
Pool ==
  { [id |-> 1, name |-> <<"A", "b">>, latitude |-> "0", longitude |-> "0", order |-> 1],
    [id |-> 2, name |-> <<"b", "a">>, latitude |-> "0", longitude |-> "1", order |-> 2],
    [id |-> 3, name |-> <<"B">>,      latitude |-> "0", longitude |-> "2", order |-> 1],
    [id |-> 1, name |-> <<"a", "B">>, latitude |-> "2", longitude |-> "1", order |-> 3] }

\* Ids a caller may ask for; each is absent from the catalogs that hold no
\* record with it.
QueryIds == {1, 2, 3}

\* Search strings a caller may pass.
SearchQueries == { <<>>, <<"a">>, <<"A">>, <<"a", "b">>, <<"b", "b">> }

Range(s) == {s[i] : i \in DOMAIN s}

SeqsUpTo(n) == UNION {[1..k -> Pool] : k \in 0..n}

WithLine(list, l) ==
  [i \in DOMAIN list |->
     [id |-> list[i].id, name |-> list[i].name, latitude |-> list[i].latitude,
      longitude |-> list[i].longitude, order |-> list[i].order, line |-> l]]

\* Every catalog of two lines holding at most MaxStations records.
Catalogs ==
  UNION { { [l \in {"M5", "M4"} |-> IF l = "M5" THEN WithLine(a, "M5") ELSE WithLine(b, "M4")] :
              b \in SeqsUpTo(MaxStations - Len(a)) } :
          a \in SeqsUpTo(MaxStations) }

\* Largest number of station records in a catalog with invalid coordinates.
MaxInvalidStations == 3

\* Records on the meridian of longitude 0: one with a latitude beyond the
\* pole, one whose latitude is missing (load_stations stores "").
PoolBadLatitude ==
  { [id |-> 1, name |-> <<"A", "b">>, latitude |-> "0", longitude |-> "0", order |-> 1],
    [id |-> 2, name |-> <<"b", "a">>, latitude |-> "1", longitude |-> "0", order |-> 2],
    [id |-> 3, name |-> <<"B">>,      latitude |-> "180001", longitude |-> "0", order |-> 3],
    [id |-> 2, name |-> <<"a", "B">>, latitude |-> "", longitude |-> "0", order |-> 2] }

\* Records on the equator: one with a longitude beyond 180 degrees, one whose
\* longitude is no number.
PoolBadLongitude ==
  { [id |-> 1, name |-> <<"A", "b">>, latitude |-> "0", longitude |-> "0", order |-> 1],
    [id |-> 2, name |-> <<"b", "a">>, latitude |-> "0", longitude |-> "1", order |-> 2],
    [id |-> 3, name |-> <<"B">>,      latitude |-> "0", longitude |-> "360001", order |-> 3],
    [id |-> 2, name |-> <<"a", "B">>, latitude |-> "0", longitude |-> "N/A", order |-> 2] }

SeqsOver(pool, n) == UNION {[1..k -> pool] : k \in 0..n}

\* Every catalog of two lines holding at most n records of the pool.
CatalogsOver(pool, n) ==
  UNION { { [l \in {"M5", "M4"} |-> IF l = "M5" THEN WithLine(a, "M5") ELSE WithLine(b, "M4")] :
              b \in SeqsOver(pool, n - Len(a)) } :
          a \in SeqsOver(pool, n) }

----------------------------------------------------------------------------
(* Conversions and arithmetic *)

\* The texts float() accepts; on any other text it raises ValueError.
\* "180001" is 90.0005 degrees and "360001" is 180.0005 degrees.
NumericText == {"0", "1", "2", "3", "180001", "360001"}

float_raises(s) == s \notin NumericText

\* float(str): the number a decimal string denotes.
float(s) ==
  CASE s = "0" -> 0
    [] s = "1" -> 1
    [] s = "2" -> 2
    [] s = "3" -> 3
    [] s = "180001" -> 180001
    [] s = "360001" -> 360001

\* Earth's radius in kilometres.
R == 6371

\* Metres of great-circle arc per grid step of 0.0005 degree:
\* R * 1000 * (pi / 180) * 0.0005 = R * pi / 360, with pi taken as 355/113.
GridMetres == (R * 355) \div (113 * 360)

Abs(x) == IF x < 0 THEN -x ELSE x

\* Grid steps in 180 degrees.
HalfTurn == 180 * 2000

\* 2 * asin(|sin(d / 2)|) in grid steps: the angle d taken the short way round.
Arc(d) ==
  LET m == Abs(d) % (2 * HalfTurn)
  IN  IF m > HalfTurn THEN 2 * HalfTurn - m ELSE m

\* Great-circle distance in metres.  Along a meridian (dlon = 0) and along
\* the equator the haversine formula gives R times the angle between the
\* points, for any latitude and longitude values.  Elsewhere, for the small
\* angles of the grid, it agrees with the planar distance
\* R * sqrt(dlat^2 + dlon^2), which is computed rounded down to a metre.
_haversine_distance(lat1, lon1, lat2, lon2) ==
  LET dlat == lat2 - lat1
      dlon == lon2 - lon1
      steps == Abs(dlat) + Abs(dlon)
  IN  IF dlon = 0 THEN GridMetres * Arc(dlat)
      ELSE IF lat1 = 0 /\ lat2 = 0 THEN GridMetres * Arc(dlon)
      ELSE CHOOSE r \in 0..(GridMetres * steps) :
             /\ r * r <= GridMetres * GridMetres * (dlat * dlat + dlon * dlon)
             /\ (r + 1) * (r + 1) > GridMetres * GridMetres * (dlat * dlat + dlon * dlon)

\* Python's round(): to the nearest multiple of step, halves to the even one.
round(x, step) ==
  LET q == x \div step
      r == x % step
  IN  IF 2 * r < step THEN q * step
      ELSE IF 2 * r > step THEN (q + 1) * step
      ELSE IF q % 2 = 0 THEN q * step ELSE (q + 1) * step

\* round(km, 2): metres to the nearest 10.
round2(metres) == round(metres, 10)

\* round(minutes, 1): 1/10000 minutes to the nearest 1000.
round1(t) == round(t, 1000)

UpperChar(c) ==
  CASE c = "a" -> "A"
    [] c = "b" -> "B"
    [] OTHER -> c

\* str.upper()
upper(s) == [i \in DOMAIN s |-> UpperChar(s[i])]

\* Python's `q in s` on strings.
Contains(q, s) ==
  \E i \in 0..(Len(s) - Len(q)) : SubSeq(s, i + 1, i + Len(q)) = q

----------------------------------------------------------------------------
(* The graph (networkx.Graph): nodes in insertion order, node attributes,  *)
(* and one attribute record per unordered pair of adjacent ids.            *)

EmptyGraph == [nodes |-> <<>>, attr |-> <<>>, edge |-> <<>>]

NodeSet(g) == Range(g.nodes)

\* add_node that leaves the attributes of a known id as they are.
add_node_keep_first(g, node_id, pos, name, line, order) ==
  IF node_id \in NodeSet(g) THEN g
  ELSE [nodes |-> Append(g.nodes, node_id),
        attr  |-> (node_id :> [pos |-> pos, name |-> name, line |-> line, order |-> order]) @@ g.attr,
        edge  |-> g.edge]

\* Graph.add_node: a new id is appended, a known id has its attributes overwritten.
add_node(g, node_id, pos, name, line, order) ==
  [nodes |-> IF node_id \in NodeSet(g) THEN g.nodes ELSE Append(g.nodes, node_id),
   attr  |-> (node_id :> [pos |-> pos, name |-> name, line |-> line, order |-> order]) @@ g.attr,
   edge  |-> g.edge]

\* Graph.add_edge: the pair's attributes are set, replacing earlier ones.
add_edge(g, u, v, weight, line) ==
  [nodes |-> g.nodes,
   attr  |-> g.attr,
   edge  |-> ({u, v} :> [weight |-> weight, line |-> line]) @@ g.edge]

\* The records of the catalog in the order the loops of build_graph visit them.
RECURSIVE Flatten(_, _)
Flatten(catalog, k) ==
  IF k > Len(LineOrder) THEN <<>>
  ELSE catalog[LineOrder[k]] \o Flatten(catalog, k + 1)

\* First loop of build_graph: one add_node per record; float() may raise.
RECURSIVE add_nodes(_, _, _)
add_nodes(g, flat, i) ==
  IF i > Len(flat) THEN [G |-> g, raised |-> FALSE]
  ELSE LET station == flat[i]
           lat == float(station.latitude)
           lng == float(station.longitude)
       IN  IF float_raises(station.latitude) \/ float_raises(station.longitude)
           THEN [G |-> g, raised |-> TRUE]
           ELSE add_nodes(add_node(g, station.id, <<lng, lat>>, station.name,
                                   station.line, station.order),
                          flat, i + 1)

\* The inner loop run over range(len(station_list) - 2).
RECURSIVE add_line_edges_short(_, _, _, _)
add_line_edges_short(g, line_name, station_list, i) ==
  IF i > Len(station_list) - 2 THEN g
  ELSE LET station1 == station_list[i]
           station2 == station_list[i + 1]
           distance == _haversine_distance(
                         float(station1.latitude), float(station1.longitude),
                         float(station2.latitude), float(station2.longitude))
       IN  add_line_edges_short(add_edge(g, station1.id, station2.id, distance, line_name),
                                line_name, station_list, i + 1)

\* The inner loop taking the coordinates from the nodes of the two ids.
RECURSIVE add_line_edges_node_pos(_, _, _, _)
add_line_edges_node_pos(g, line_name, station_list, i) ==
  IF i > Len(station_list) - 1 THEN g
  ELSE LET station1 == station_list[i]
           station2 == station_list[i + 1]
           distance == _haversine_distance(
                         g.attr[station1.id].pos[2], g.attr[station1.id].pos[1],
                         g.attr[station2.id].pos[2], g.attr[station2.id].pos[1])
       IN  add_line_edges_node_pos(add_edge(g, station1.id, station2.id, distance, line_name),
                                   line_name, station_list, i + 1)

\* Inner loop of the second loop: for i in range(len(station_list) - 1).
RECURSIVE add_line_edges(_, _, _, _)
add_line_edges(g, line_name, station_list, i) ==
  IF i > Len(station_list) - 1 THEN g
  ELSE LET station1 == station_list[i]
           station2 == station_list[i + 1]
           distance == _haversine_distance(
                         float(station1.latitude), float(station1.longitude),
                         float(station2.latitude), float(station2.longitude))
       IN  add_line_edges(add_edge(g, station1.id, station2.id, distance, line_name),
                          line_name, station_list, i + 1)

\* Second loop of build_graph: the lines in dict order.
RECURSIVE add_edges(_, _, _)
add_edges(g, catalog, k) ==
  IF k > Len(LineOrder) THEN g
  ELSE add_edges(add_line_edges(g, LineOrder[k], catalog[LineOrder[k]], 1),
                 catalog, k + 1)

\* build_graph on an empty self.G: the graph, or the exception of float().
build_graph(catalog) ==
  LET n == add_nodes(EmptyGraph, Flatten(catalog, 1), 1)
  IN  IF n.raised THEN n
      ELSE [G |-> add_edges(n.G, catalog, 1), raised |-> FALSE]

----------------------------------------------------------------------------
(* nx.shortest_path(G, source, target, weight='weight'): Dijkstra's        *)
(* algorithm on the edge weights.  Ties are broken by node insertion       *)
(* order, one of the deterministic rules the library may follow.           *)

Infinity == -1

Pos(g, n) == CHOOSE i \in DOMAIN g.nodes : g.nodes[i] = n

RECURSIVE dijkstra(_, _, _, _, _)
dijkstra(g, weighted, dist, pred, done) ==
  LET V == NodeSet(g)
      fringe == {n \in V \ done : dist[n] # Infinity}
  IN  IF fringe = {} THEN [dist |-> dist, pred |-> pred]
      ELSE
        LET u == CHOOSE n \in fringe : \A m \in fringe :
                   \/ dist[n] < dist[m]
                   \/ dist[n] = dist[m] /\ Pos(g, n) <= Pos(g, m)
            cost(v) == IF weighted THEN g.edge[{u, v}].weight ELSE 1
            better == {v \in V \ (done \cup {u}) :
                         /\ {u, v} \in DOMAIN g.edge
                         /\ (dist[v] = Infinity \/ dist[u] + cost(v) < dist[v])}
        IN  dijkstra(g, weighted,
                     [n \in V |-> IF n \in better THEN dist[u] + cost(n) ELSE dist[n]],
                     [n \in V |-> IF n \in better THEN u ELSE pred[n]],
                     done \cup {u})

RECURSIVE walk_back(_, _, _)
walk_back(pred, source, n) ==
  IF n = source THEN <<source>> ELSE Append(walk_back(pred, source, pred[n]), n)

dijkstra_path(g, source, target, weighted) ==
  IF source \notin NodeSet(g) \/ target \notin NodeSet(g)
  THEN [exc |-> "NodeNotFound", path |-> <<>>]
  ELSE LET V == NodeSet(g)
           d == dijkstra(g, weighted,
                         [n \in V |-> IF n = source THEN 0 ELSE Infinity],
                         [n \in V |-> n], {})
       IN  IF d.dist[target] = Infinity
           THEN [exc |-> "NetworkXNoPath", path |-> <<>>]
           ELSE [exc |-> "none", path |-> walk_back(d.pred, source, target)]

\* The same call without weight='weight': fewest edges.
shortest_path_hops(g, source, target) == dijkstra_path(g, source, target, FALSE)

shortest_path(g, source, target) == dijkstra_path(g, source, target, TRUE)

----------------------------------------------------------------------------
(* find_shortest_path *)

\* (distance / 40) * 60 + 1 minutes, in 1/10000 minute for a distance in metres.
travel_time(distance) == 15 * distance + 10000

\* One entry of route_details, taking the line from the node reached.
leg_node_line(g, current_id, next_id) ==
  LET edge_data == g.edge[{current_id, next_id}]
      distance == edge_data.weight
  IN  [from_id |-> current_id, from_name |-> g.attr[current_id].name,
       to_id |-> next_id, to_name |-> g.attr[next_id].name,
       line |-> g.attr[next_id].line,
       distance |-> round2(distance), time |-> round1(travel_time(distance))]

\* One entry of route_details (loop body, lines 309-335).
leg(g, current_id, next_id) ==
  LET edge_data == g.edge[{current_id, next_id}]
      distance == edge_data.weight
  IN  [from_id |-> current_id, from_name |-> g.attr[current_id].name,
       to_id |-> next_id, to_name |-> g.attr[next_id].name,
       line |-> edge_data.line,
       distance |-> round2(distance), time |-> round1(travel_time(distance))]

\* route_details with the two ends of every leg exchanged.
route_details_swapped(g, path) ==
  [i \in 1..(Len(path) - 1) |-> leg(g, path[i + 1], path[i])]

route_details(g, path) ==
  [i \in 1..(Len(path) - 1) |-> leg(g, path[i], path[i + 1])]

\* total_distance accumulated from the rounded leg distances.
RECURSIVE sum_rounded(_, _, _)
sum_rounded(g, path, i) ==
  IF i > Len(path) - 1 THEN 0
  ELSE round2(g.edge[{path[i], path[i + 1]}].weight) + sum_rounded(g, path, i + 1)

\* total_distance += distance, from 0, over the legs.
RECURSIVE sum_distance(_, _, _)
sum_distance(g, path, i) ==
  IF i > Len(path) - 1 THEN 0
  ELSE g.edge[{path[i], path[i + 1]}].weight + sum_distance(g, path, i + 1)

\* total_time with the dwell minute counted per station of the path.
RECURSIVE sum_time_per_station(_, _, _)
sum_time_per_station(g, path, i) ==
  IF i > Len(path) THEN 0
  ELSE (IF i < Len(path) THEN 15 * g.edge[{path[i], path[i + 1]}].weight ELSE 0)
       + 10000 + sum_time_per_station(g, path, i + 1)

\* total_time accumulated from the rounded leg times.
RECURSIVE sum_time_rounded(_, _, _)
sum_time_rounded(g, path, i) ==
  IF i > Len(path) - 1 THEN 0
  ELSE round1(travel_time(g.edge[{path[i], path[i + 1]}].weight))
       + sum_time_rounded(g, path, i + 1)

\* total_time += travel_time, from 0, over the legs.
RECURSIVE sum_time(_, _, _)
sum_time(g, path, i) ==
  IF i > Len(path) - 1 THEN 0
  ELSE travel_time(g.edge[{path[i], path[i + 1]}].weight) + sum_time(g, path, i + 1)

station_dict(g, station_id) ==
  [id |-> station_id, name |-> g.attr[station_id].name,
   latitude |-> g.attr[station_id].pos[2], longitude |-> g.attr[station_id].pos[1],
   line |-> g.attr[station_id].line]

stations_on_route(g, path) == [i \in DOMAIN path |-> station_dict(g, path[i])]

None == [kind |-> "None"]

route_dict(g, path) ==
  [kind |-> "dict",
   path |-> path,
   stations |-> stations_on_route(g, path),
   route_details |-> route_details(g, path),
   total_distance |-> round2(sum_distance(g, path, 1)),
   total_time |-> round1(sum_time(g, path, 1)),
   num_stations |-> Len(path)]

\* find_shortest_path with `except nx.NetworkXNoPath` as its only handler.
find_shortest_path_one_handler(g, source_id, target_id) ==
  LET p == shortest_path(g, source_id, target_id)
  IN  IF p.exc = "NetworkXNoPath" THEN None
      ELSE IF p.exc # "none" THEN [kind |-> "raise", exc |-> p.exc]
      ELSE route_dict(g, p.path)

\* find_shortest_path: the route dict, or None from either except clause.
find_shortest_path(g, source_id, target_id) ==
  LET p == shortest_path(g, source_id, target_id)
  IN  IF p.exc = "NetworkXNoPath" THEN None
      ELSE IF p.exc # "none" THEN None
      ELSE route_dict(g, p.path)

----------------------------------------------------------------------------
(* get_station_by_id, search_stations *)

\* self.G.nodes[station_id] raises KeyError for an unknown id: None.
get_station_by_id(g, station_id) ==
  IF station_id \notin NodeSet(g) THEN None
  ELSE [kind |-> "dict", station |-> station_dict(g, station_id)]

\* The loop over G.nodes(data=True), in insertion order.
RECURSIVE search_from(_, _, _)
search_from(g, query, i) ==
  IF i > Len(g.nodes) THEN <<>>
  ELSE LET node_id == g.nodes[i]
           rest == search_from(g, query, i + 1)
       IN  IF Contains(query, upper(g.attr[node_id].name))
           THEN <<station_dict(g, node_id)>> \o rest
           ELSE rest

\* search_stations without `query = query.upper()`.
search_stations_raw(g, query) == search_from(g, query, 1)

search_stations(g, query) == search_from(g, upper(query), 1)

----------------------------------------------------------------------------
(* The service: __init__ has loaded the catalog, build_graph runs once,    *)
(* then the queries are called in any order.                               *)

Init ==
  /\ stations \in Catalogs
  /\ line_colors = LineColors
  /\ G = EmptyGraph
  /\ phase = "loaded"
  /\ last = [op |-> "none"]

Call_build_graph ==
  /\ phase = "loaded"
  /\ LET b == build_graph(stations)
     IN  /\ G' = b.G
         /\ phase' = IF b.raised THEN "failed" ELSE "ready"
  /\ last' = [op |-> "build_graph"]
  /\ UNCHANGED <<stations, line_colors>>

Call_find_shortest_path ==
  /\ phase = "ready"
  /\ \E source_id \in QueryIds, target_id \in QueryIds :
       last' = [op |-> "find_shortest_path", source_id |-> source_id,
                target_id |-> target_id,
                ret |-> find_shortest_path(G, source_id, target_id)]
  /\ UNCHANGED <<stations, line_colors, G, phase>>

Call_get_station_by_id ==
  /\ phase = "ready"
  /\ \E station_id \in QueryIds :
       last' = [op |-> "get_station_by_id", station_id |-> station_id,
                ret |-> get_station_by_id(G, station_id)]
  /\ UNCHANGED <<stations, line_colors, G, phase>>

\* search_stations upper-casing the stored names in place.
Call_search_stations_in_place ==
  /\ phase = "ready"
  /\ \E query \in SearchQueries :
       last' = [op |-> "search_stations", query |-> query,
                ret |-> search_stations(G, query)]
  /\ G' = [G EXCEPT !.attr = [n \in DOMAIN G.attr |->
                                [G.attr[n] EXCEPT !.name = upper(G.attr[n].name)]]]
  /\ UNCHANGED <<stations, line_colors, phase>>

Call_search_stations ==
  /\ phase = "ready"
  /\ \E query \in SearchQueries :
       last' = [op |-> "search_stations", query |-> query,
                ret |-> search_stations(G, query)]
  /\ UNCHANGED <<stations, line_colors, G, phase>>

Call_get_all_stations ==
  /\ phase = "ready"
  /\ last' = [op |-> "get_all_stations", ret |-> stations]
  /\ UNCHANGED <<stations, line_colors, G, phase>>

Call_get_all_lines ==
  /\ phase = "ready"
  /\ last' = [op |-> "get_all_lines", ret |-> line_colors]
  /\ UNCHANGED <<stations, line_colors, G, phase>>

Next ==
  \/ Call_build_graph
  \/ Call_find_shortest_path
  \/ Call_get_station_by_id
  \/ Call_search_stations
  \/ Call_get_all_stations
  \/ Call_get_all_lines

Spec == Init /\ [][Next]_vars

----------------------------------------------------------------------------
(* load_stations and _apply_corrections.  The dict of station lists is cut *)
(* down to four keys: M5 (filled from the API only), MM and M3 (replaced   *)
(* by hard-coded lists, here their first two records), M6 (filled from the *)
(* API, its first record corrected).  Coordinates are grid texts.          *)

LoadLineOrder == <<"M5", "MM", "M3", "M6">>

LoadLines == Range(LoadLineOrder)

\* Longest "Data" list of a response.
MaxData == 3

\* Items of the "Data" list of the API's answer.  The fourth has no "Name"
\* key, the second no "Latitude" in its DetailInfo, the last names a line
\* that is no key of self.stations.
RawPool ==
  { [LineName |-> "M5", Name |-> <<"A">>, DetailInfo |-> [Latitude |-> "0", Longitude |-> "0"],
     Id |-> 1, Order |-> 1],
    [LineName |-> "M6", Name |-> <<"B">>, DetailInfo |-> [Longitude |-> "1"],
     Id |-> 2, Order |-> 1],
    [LineName |-> "MM", Name |-> <<"C">>, DetailInfo |-> [Latitude |-> "2", Longitude |-> "2"],
     Id |-> 3, Order |-> 1],
    [LineName |-> "M5", DetailInfo |-> [Latitude |-> "1", Longitude |-> "0"],
     Id |-> 4, Order |-> 2],
    [LineName |-> "T9", Name |-> <<"D">>, DetailInfo |-> [Latitude |-> "3", Longitude |-> "3"],
     Id |-> 5, Order |-> 1] }

\* What requests.get and response.json() may give: an exception of
\* requests.get, a status other than 200, a blank text, a text that is no
\* JSON, or a parsed answer with its "Data" list.
Responses ==
  { [outcome |-> o, Data |-> <<>>] :
      o \in {"exception", "status_503", "blank_text", "invalid_json"} }
  \cup { [outcome |-> "json", Data |-> d] : d \in SeqsOver(RawPool, MaxData) }

\* dict.get(key, "")
get(d, key) == IF key \in DOMAIN d THEN d[key] ELSE ""

\* The parsing loop (lines 38-49): a record is appended to the list of its
\* line; a missing key raises KeyError and leaves the lists as they are.
RECURSIVE parse_stations(_, _, _)
parse_stations(st, data, i) ==
  IF i > Len(data) THEN [stations |-> st, raised |-> FALSE]
  ELSE LET station_data == data[i]
       IN  IF "LineName" \notin DOMAIN station_data
           THEN [stations |-> st, raised |-> TRUE]
           ELSE IF station_data.LineName \notin DOMAIN st
           THEN parse_stations(st, data, i + 1)
           ELSE IF {"Name", "DetailInfo", "Id", "Order"} \subseteq DOMAIN station_data
           THEN LET key == station_data.LineName
                    station == [name |-> station_data.Name,
                                latitude |-> get(station_data.DetailInfo, "Latitude"),
                                longitude |-> get(station_data.DetailInfo, "Longitude"),
                                id |-> station_data.Id,
                                order |-> station_data.Order,
                                line |-> key]
                IN  parse_stations([st EXCEPT ![key] = Append(@, station)], data, i + 1)
           ELSE [stations |-> st, raised |-> TRUE]

\* The hard-coded Marmaray list (its first two records).
ManualMM ==
  << [name |-> <<"G">>, latitude |-> "0", longitude |-> "3", id |-> 301, order |-> 1, line |-> "MM"],
     [name |-> <<"D">>, latitude |-> "1", longitude |-> "3", id |-> 302, order |-> 2, line |-> "MM"] >>

\* The hard-coded M3 list (its first two records, orders descending).
ManualM3 ==
  << [name |-> <<"K">>, latitude |-> "3", longitude |-> "0", id |-> 240, order |-> 13, line |-> "M3"],
     [name |-> <<"T">>, latitude |-> "3", longitude |-> "1", id |-> 239, order |-> 12, line |-> "M3"] >>

\* _apply_corrections: MM and M3 are replaced, the first M6 record, if any,
\* gets its coordinates and the id 28.
_apply_corrections(st) ==
  [l \in DOMAIN st |->
     CASE l = "MM" -> ManualMM
       [] l = "M3" -> ManualM3
       [] l = "M6" /\ Len(st[l]) > 0 ->
            [st[l] EXCEPT ![1] = [@ EXCEPT !.latitude = "1", !.longitude = "2", !.id = 28]]
       [] OTHER -> st[l]]

\* load_stations: the lists it leaves and the number of calls of
\* _apply_corrections (line 55 at the end of the try block, line 60 in the
\* except clause).
load_stations(st, response) ==
  LET fetched == response.outcome \in {"status_503", "blank_text", "json"}
      is_valid == response.outcome = "json"
      parsed == IF is_valid THEN parse_stations(st, response.Data, 1)
                ELSE [stations |-> st, raised |-> FALSE]
      raised == ~fetched \/ response.outcome = "invalid_json" \/ parsed.raised
      in_try == IF raised THEN 0 ELSE 1
      in_except == IF raised THEN 1 ELSE 0
  IN  [stations |-> _apply_corrections(parsed.stations),
       corrections |-> in_try + in_except]

InitLoad ==
  /\ stations = [l \in LoadLines |-> <<>>]
  /\ line_colors = LineColors
  /\ G = EmptyGraph
  /\ phase = "new"
  /\ last = [op |-> "none"]

Call_load_stations ==
  /\ phase = "new"
  /\ \E response \in Responses :
       LET l == load_stations(stations, response)
       IN  /\ stations' = l.stations
           /\ last' = [op |-> "load_stations", response |-> response,
                       corrections |-> l.corrections]
  /\ phase' = "loaded"
  /\ UNCHANGED <<line_colors, G>>

NextLoad == Call_load_stations

SpecLoad == InitLoad /\ [][NextLoad]_vars

\* The service constructed on a catalog that may hold invalid coordinates.
InitInvalid ==
  /\ stations \in CatalogsOver(PoolBadLatitude, MaxInvalidStations)
                    \cup CatalogsOver(PoolBadLongitude, MaxInvalidStations)
  /\ line_colors = LineColors
  /\ G = EmptyGraph
  /\ phase = "loaded"
  /\ last = [op |-> "none"]

SpecInvalid == InitInvalid /\ [][Next]_vars

----------------------------------------------------------------------------
(* Properties *)

LineNames == Range(LineOrder)

Ready == phase = "ready"

RouteCalled == Ready /\ last.op = "find_shortest_path"

RouteFound == RouteCalled /\ last.ret.kind = "dict"

IsEdge(g, u, v) == {u, v} \in DOMAIN g.edge

\* Every walk of the graph from source to target over at most |V| edges.
WalksBetween(g, source, target) ==
  LET V == NodeSet(g)
  IN  { w \in UNION {[1..k -> V] : k \in 2..(Cardinality(V) + 1)} :
          /\ w[1] = source
          /\ w[Len(w)] = target
          /\ \A i \in 1..(Len(w) - 1) : IsEdge(g, w[i], w[i + 1]) }

RECURSIVE SumSeq(_)
SumSeq(q) == IF q = <<>> THEN 0 ELSE q[1] + SumSeq(Tail(q))

RawWeights(g, w) == [i \in 1..(Len(w) - 1) |-> g.edge[{w[i], w[i + 1]}].weight]

PathWeight(g, w) == SumSeq(RawWeights(g, w))

\* The ids joined to the ids of S by edges.
RECURSIVE Reach(_, _)
Reach(g, S) ==
  LET T == S \cup {v \in NodeSet(g) : \E u \in S : IsEdge(g, u, v)}
  IN  IF T = S THEN S ELSE Reach(g, T)

\* C1: between distinct, present and connected ids the returned path is a
\* walk of the graph from source to target and no walk between them has a
\* strictly smaller sum of edge weights.
C1_MinimalWeight ==
  (RouteFound /\ last.source_id # last.target_id) =>
    /\ last.ret.path \in WalksBetween(G, last.source_id, last.target_id)
    /\ \A w \in WalksBetween(G, last.source_id, last.target_id) :
         PathWeight(G, last.ret.path) <= PathWeight(G, w)

\* A route over two edges was returned although a single, heavier edge joins
\* source and target.
C1_Witness ==
  /\ RouteFound
  /\ Len(last.ret.path) = 3
  /\ IsEdge(G, last.source_id, last.target_id)
  /\ G.edge[{last.source_id, last.target_id}].weight > PathWeight(G, last.ret.path)

\* C2: find_shortest_path returns None exactly when the source or the target
\* is no node of the graph or no chain of edges joins them; otherwise it
\* returns a route dict; it never raises.
C2_NoneIffAbsentOrDisconnected ==
  RouteCalled =>
    /\ last.ret.kind \in {"dict", "None"}
    /\ last.ret.kind = "None" <=>
         \/ last.source_id \notin NodeSet(G)
         \/ last.target_id \notin NodeSet(G)
         \/ last.target_id \notin Reach(G, {last.source_id})

\* None was returned for an id that is absent and asked for as both ends,
\* and the graph also holds present ids that no chain of edges joins.
C2_Witness ==
  /\ RouteCalled
  /\ last.ret.kind = "None"
  /\ last.source_id = last.target_id
  /\ last.source_id \notin NodeSet(G)
  /\ \E u, v \in NodeSet(G) : v \notin Reach(G, {u})

\* C3: for a present id x, find_shortest_path(x, x) returns path <<x>>, no
\* legs, total_distance 0, total_time 0 and num_stations 1.
C3_SameStation ==
  (RouteCalled /\ last.source_id = last.target_id /\ last.source_id \in NodeSet(G)) =>
    /\ last.ret.kind = "dict"
    /\ last.ret.path = <<last.source_id>>
    /\ last.ret.route_details = <<>>
    /\ last.ret.total_distance = 0
    /\ last.ret.total_time = 0
    /\ last.ret.num_stations = 1

\* x was asked for as both ends while the graph has edges at x, one of them
\* a loop from x to x.
C3_Witness ==
  /\ RouteFound
  /\ last.source_id = last.target_id
  /\ IsEdge(G, last.source_id, last.source_id)
  /\ \E v \in NodeSet(G) : v # last.source_id /\ IsEdge(G, last.source_id, v)

ConsecutiveIn(list, u, v) ==
  \E j \in 1..(Len(list) - 1) : {list[j].id, list[j + 1].id} = {u, v}

\* The catalog is line a = [S1, S2], line b = [S2, S3] with three distinct ids.
TwoLineScenario(a, b) ==
  /\ a # b
  /\ Len(stations[a]) = 2
  /\ Len(stations[b]) = 2
  /\ stations[a][2].id = stations[b][1].id
  /\ Cardinality({stations[a][1].id, stations[a][2].id, stations[b][2].id}) = 3

\* C4: in the two-line scenario the route from S1 to S3 is <<S1, S2, S3>> with
\* two legs tagged line a then line b; and every leg of every route carries
\* the tag of a line in which the leg's two ids are consecutive.
C4_LegLines ==
  /\ RouteFound =>
       \A i \in DOMAIN last.ret.route_details :
         LET d == last.ret.route_details[i]
         IN  /\ d.line \in LineNames
             /\ ConsecutiveIn(stations[d.line], d.from_id, d.to_id)
  /\ \A a, b \in LineNames :
       (/\ RouteCalled
        /\ TwoLineScenario(a, b)
        /\ last.source_id = stations[a][1].id
        /\ last.target_id = stations[b][2].id) =>
         /\ last.ret.kind = "dict"
         /\ last.ret.path = <<stations[a][1].id, stations[a][2].id, stations[b][2].id>>
         /\ Len(last.ret.route_details) = 2
         /\ last.ret.route_details[1].line = a
         /\ last.ret.route_details[2].line = b

\* The scenario with the first line of the iteration order as line a, its
\* S1 to S3 route returned.
C4_Witness ==
  /\ RouteFound
  /\ TwoLineScenario(LineOrder[1], LineOrder[2])
  /\ last.source_id = stations[LineOrder[1]][1].id
  /\ last.target_id = stations[LineOrder[2]][2].id

\* Index in LineOrder of the last line holding a record with this id (0: none).
LastLineWith(id) ==
  LET ks == {k \in DOMAIN LineOrder : \E j \in DOMAIN stations[LineOrder[k]] :
                                        stations[LineOrder[k]][j].id = id}
  IN  IF ks = {} THEN 0 ELSE CHOOSE k \in ks : \A m \in ks : m <= k

\* The last record with this id in that line.
LastRecordWith(id, k) ==
  LET list == stations[LineOrder[k]]
      js == {j \in DOMAIN list : list[j].id = id}
  IN  list[CHOOSE j \in js : \A m \in js : m <= j]

\* C5: get_station_by_id returns name, latitude, longitude and line tag of
\* the last record with the id (last line of the iteration order, last
\* position in it), and None for an id that no line holds.
C5_LastRecordWins ==
  (Ready /\ last.op = "get_station_by_id") =>
    LET k == LastLineWith(last.station_id)
    IN  IF k = 0 THEN last.ret = None
        ELSE LET r == LastRecordWith(last.station_id, k)
             IN  /\ last.ret.kind = "dict"
                 /\ last.ret.station.id = last.station_id
                 /\ last.ret.station.name = r.name
                 /\ last.ret.station.latitude = float(r.latitude)
                 /\ last.ret.station.longitude = float(r.longitude)
                 /\ last.ret.station.line = LineOrder[k]

\* The id asked for has records in both lines that differ in name and
\* coordinates, and a station was returned.
C5_Witness ==
  /\ Ready
  /\ last.op = "get_station_by_id"
  /\ last.ret.kind = "dict"
  /\ \E r1 \in Range(stations[LineOrder[1]]), r2 \in Range(stations[LineOrder[2]]) :
       /\ r1.id = last.station_id
       /\ r2.id = last.station_id
       /\ r1.name # r2.name
       /\ r1.latitude # r2.latitude
       /\ r1.longitude # r2.longitude

\* The distances build_graph computes for the positions of `list` at which
\* the pair {u, v} is consecutive.
PairDistances(list, u, v) ==
  { _haversine_distance(float(list[j].latitude), float(list[j].longitude),
                        float(list[j + 1].latitude), float(list[j + 1].longitude)) :
      j \in {i \in 1..(Len(list) - 1) : {list[i].id, list[i + 1].id} = {u, v}} }

\* C6: a pair of ids consecutive in two lines with different distances keeps
\* the lower of the two weights, whatever the order of the lines.
C6_LowerWeightKept ==
  Ready =>
    \A u, v \in NodeSet(G) :
      u # v =>
      \A d1 \in PairDistances(stations[LineOrder[1]], u, v),
         d2 \in PairDistances(stations[LineOrder[2]], u, v) :
        d1 # d2 => G.edge[{u, v}].weight = (IF d1 < d2 THEN d1 ELSE d2)

\* The unordered pairs of ids at consecutive list positions of some line.
ConsecutivePairs ==
  UNION { { {stations[l][j].id, stations[l][j + 1].id} : j \in 1..(Len(stations[l]) - 1) } :
          l \in LineNames }

\* C7: after build_graph the edges are exactly the pairs of ids at
\* consecutive list positions of some line, whatever the order fields say,
\* and build_graph completes also when a line has no or one station.
C7_EdgesAreConsecutivePairs ==
  /\ last.op = "build_graph" => phase = "ready"
  /\ Ready => DOMAIN G.edge = ConsecutivePairs

\* The graph was built from a line of one station and a line whose order
\* fields run against the list positions, and has edges.
C7_Witness ==
  /\ Ready
  /\ \E l \in LineNames : Len(stations[l]) = 1
  /\ \E l \in LineNames : \E j \in 1..(Len(stations[l]) - 1) :
       stations[l][j].order > stations[l][j + 1].order
  /\ DOMAIN G.edge # {}

QueryOps == {"find_shortest_path", "get_station_by_id", "search_stations",
             "get_all_stations", "get_all_lines"}

\* What the last call returns on the graph freshly built from the catalog.
FreshResult ==
  LET g == build_graph(stations).G
  IN  CASE last.op = "find_shortest_path" ->
             find_shortest_path(g, last.source_id, last.target_id)
        [] last.op = "get_station_by_id" -> get_station_by_id(g, last.station_id)
        [] last.op = "search_stations" -> search_stations(g, last.query)
        [] last.op = "get_all_stations" -> stations
        [] last.op = "get_all_lines" -> LineColors

\* C8: once the graph is built no call changes the graph, the catalog or the
\* colors, and every call returns what it returns on the freshly built graph.
C8_QueriesReadOnly ==
  /\ [][Ready => (G' = G /\ stations' = stations /\ line_colors' = line_colors)]_vars
  /\ [](Ready /\ last.op \in QueryOps => last.ret = FreshResult)

\* A search that matched stations whose stored names are not upper case.
C8_Witness ==
  /\ Ready
  /\ last.op = "search_stations"
  /\ \E i \in DOMAIN last.ret : upper(last.ret[i].name) # last.ret[i].name

SearchCalled == Ready /\ last.op = "search_stations"

ResultIds(res) == {res[i].id : i \in DOMAIN res}

\* C9: search_stations returns exactly the nodes whose upper-cased name holds
\* the upper-cased query, each once and in node order; queries equal up to
\* letter case return the same result; the empty query returns every node.
C9_SearchCaseInsensitive ==
  SearchCalled =>
    LET res == last.ret
    IN  /\ ResultIds(res) = {n \in NodeSet(G) :
                               Contains(upper(last.query), upper(G.attr[n].name))}
        /\ \A i, j \in DOMAIN res : i < j => Pos(G, res[i].id) < Pos(G, res[j].id)
        /\ \A i \in DOMAIN res : res[i] = station_dict(G, res[i].id)
        /\ \A q \in SearchQueries :
             upper(q) = upper(last.query) => search_stations(G, q) = res
        /\ last.query = <<>> => ResultIds(res) = NodeSet(G)

\* A lower-case query matched two stations, one of them not all nodes.
C9_Witness ==
  /\ SearchCalled
  /\ upper(last.query) # last.query
  /\ Len(last.ret) = 2
  /\ ResultIds(last.ret) # NodeSet(G)

\* C10: total_distance is the sum of the raw edge weights of the path,
\* rounded once to 2 decimals (10 m), so within half a step (5 m) of the sum.
C10_TotalRoundedOnce ==
  RouteFound =>
    /\ last.ret.total_distance = round2(PathWeight(G, last.ret.path))
    /\ Abs(last.ret.total_distance - PathWeight(G, last.ret.path)) <= 5

\* A route whose rounded leg distances add up to something else than its
\* total_distance.
C10_Witness ==
  /\ RouteFound
  /\ SumSeq([i \in DOMAIN last.ret.route_details |-> last.ret.route_details[i].distance])
       # last.ret.total_distance

\* C11: every leg's time is 1.5 minutes per kilometre of its raw weight plus
\* one minute, rounded to 1 decimal, whatever its line; total_time is the sum
\* of the unrounded leg times rounded once: round(1.5 * W + k, 1) for k legs
\* of raw weight sum W.  (In 1/10000 minute: 15 per metre, 10000 per leg.)
C11_TimePerLegAndTotal ==
  RouteFound =>
    LET legs == last.ret.route_details
        w == RawWeights(G, last.ret.path)
    IN  /\ DOMAIN legs = DOMAIN w
        /\ \A i \in DOMAIN legs : legs[i].time = round(15 * w[i] + 10000, 1000)
        /\ last.ret.total_time = round(15 * SumSeq(w) + 10000 * Len(w), 1000)

\* A route over legs of two lines whose rounded leg times add up to
\* something else than its total_time.
C11_Witness ==
  /\ RouteFound
  /\ \E i, j \in DOMAIN last.ret.route_details :
       last.ret.route_details[i].line # last.ret.route_details[j].line
  /\ SumSeq([i \in DOMAIN last.ret.route_details |-> last.ret.route_details[i].time])
       # last.ret.total_time

\* C13: a route's path starts at the source and ends at the target, repeats
\* no id, steps along edges of the graph; num_stations, the path and the
\* station list have the same length, one more than the legs; station i has
\* the id path[i]; leg i runs from path[i] to path[i+1].
C13_RouteShape ==
  RouteFound =>
    LET r == last.ret
        n == Len(r.path)
    IN  /\ n >= 1
        /\ r.path[1] = last.source_id
        /\ r.path[n] = last.target_id
        /\ Cardinality(Range(r.path)) = n
        /\ \A i \in 1..(n - 1) : IsEdge(G, r.path[i], r.path[i + 1])
        /\ r.num_stations = n
        /\ Len(r.stations) = n
        /\ Len(r.route_details) = n - 1
        /\ \A i \in 1..n : r.stations[i].id = r.path[i]
        /\ \A i \in 1..(n - 1) :
             /\ r.route_details[i].from_id = r.path[i]
             /\ r.route_details[i].to_id = r.path[i + 1]
        /\ \A i \in 1..(n - 2) :
             r.route_details[i].to_id = r.route_details[i + 1].from_id

\* A route of three stations over legs of two lines, its middle station an
\* id with records in both lines.
C13_Witness ==
  /\ RouteFound
  /\ Len(last.ret.path) = 3
  /\ last.ret.route_details[1].line # last.ret.route_details[2].line
  /\ \A l \in LineNames : \E r \in Range(stations[l]) : r.id = last.ret.path[2]

\* Distance between the coordinates retained on the nodes u and v.
NodeDistance(g, u, v) ==
  _haversine_distance(g.attr[u].pos[2], g.attr[u].pos[1],
                      g.attr[v].pos[2], g.attr[v].pos[1])

\* C14 as stated: every edge between two ids weighs the distance between the
\* coordinates retained on its two nodes.
C14_WeightFromNodeCoordinates ==
  Ready =>
    \A u, v \in NodeSet(G) :
      (u # v /\ IsEdge(G, u, v)) => G.edge[{u, v}].weight = NodeDistance(G, u, v)

\* Index in LineOrder of the last line in which u and v are consecutive.
LastLineJoining(u, v) ==
  CHOOSE k \in DOMAIN LineOrder :
    /\ ConsecutiveIn(stations[LineOrder[k]], u, v)
    /\ \A m \in DOMAIN LineOrder :
         ConsecutiveIn(stations[LineOrder[m]], u, v) => m <= k

\* Distance between the two records at the last positions of that line at
\* which u and v are consecutive.
LastPairDistance(u, v) ==
  LET list == stations[LineOrder[LastLineJoining(u, v)]]
      js == {j \in 1..(Len(list) - 1) : {list[j].id, list[j + 1].id} = {u, v}}
      j == CHOOSE x \in js : \A y \in js : y <= x
  IN  _haversine_distance(float(list[j].latitude), float(list[j].longitude),
                          float(list[j + 1].latitude), float(list[j + 1].longitude))

\* All records with this id carry the same latitude and longitude.
SameCoordinatesEverywhere(id) ==
  \A l1, l2 \in LineNames :
    \A r1 \in Range(stations[l1]), r2 \in Range(stations[l2]) :
      (r1.id = id /\ r2.id = id) =>
        (r1.latitude = r2.latitude /\ r1.longitude = r2.longitude)

\* C14 (amended): every edge weighs the distance between the coordinates of
\* the two consecutive records it was last written from; that is the
\* distance between the coordinates retained on its nodes when all records
\* of either id carry the same coordinates.
C14_WeightFromRecordPair ==
  Ready =>
    \A u, v \in NodeSet(G) :
      IsEdge(G, u, v) =>
        /\ G.edge[{u, v}].weight = LastPairDistance(u, v)
        /\ (SameCoordinatesEverywhere(u) /\ SameCoordinatesEverywhere(v)) =>
             G.edge[{u, v}].weight = NodeDistance(G, u, v)

\* An edge between distinct ids, one of them an interchange with differing
\* coordinates, whose weight is not the distance between the nodes.
C14_Witness ==
  /\ Ready
  /\ \E u, v \in NodeSet(G) :
       /\ u # v
       /\ IsEdge(G, u, v)
       /\ ~SameCoordinatesEverywhere(u)
       /\ G.edge[{u, v}].weight # NodeDistance(G, u, v)

\* Latitude outside [-90, 90] or longitude outside [-180, 180] degrees.
OutOfRange(r) ==
  \/ ~float_raises(r.latitude) /\ Abs(float(r.latitude)) * 2 > HalfTurn
  \/ ~float_raises(r.longitude) /\ Abs(float(r.longitude)) > HalfTurn

NonNumeric(r) == float_raises(r.latitude) \/ float_raises(r.longitude)

\* C12: when any record of the catalog has a non-numeric or out-of-range
\* latitude or longitude, build_graph raises and no graph is published.
C12_FailsFastOnBadCoordinates ==
  (/\ phase # "loaded"
   /\ \E l \in LineNames : \E r \in Range(stations[l]) : NonNumeric(r) \/ OutOfRange(r))
    => phase = "failed"

\* A "Data" item on which the parsing loop raises KeyError.
ItemRaises(item) ==
  \/ "LineName" \notin DOMAIN item
  \/ /\ item.LineName \in LoadLines
     /\ ~({"Name", "DetailInfo", "Id", "Order"} \subseteq DOMAIN item)

\* The fetch succeeded: an answer with status 200 was parsed to its end.
FetchSucceeded(response) ==
  /\ response.outcome = "json"
  /\ \A i \in DOMAIN response.Data : ~ItemRaises(response.Data[i])

\* Manual data only: the hard-coded lists, and no record in any other line.
ManualOnly ==
  [l \in LoadLines |->
     CASE l = "MM" -> ManualMM
       [] l = "M3" -> ManualM3
       [] OTHER -> <<>>]

\* C15: when the fetch does not succeed the catalog handed to build_graph is
\* manual data only, and on every path through load_stations the
\* corrections are applied exactly once.
C15_ManualOnlyOnFailure ==
  (phase = "loaded" /\ last.op = "load_stations") =>
    /\ last.corrections = 1
    /\ ~FetchSucceeded(last.response) => stations = ManualOnly

====
